---- MODULE Spec2Model ----
(***************************************************************************)
(* Walk the Dog: the red hat boy's typed state machine, the motion context *)
(* it integrates every tick, and the world loop that scrolls the platform, *)
(* the stone and the two background layers and feeds Land / KnockOut back  *)
(* into the state machine.  Modelled from src/src/game.rs.                 *)
(***************************************************************************)
EXTENDS Integers, Sequences, FiniteSets, TLC

VARIABLES
    game,       \* "Loading" or "Loaded": the WalkTheDog variant
    walk,       \* the Walk of a Loaded game: boy, platform, stone, backgrounds
    keystate,   \* the keys held during the last tick
    trace,      \* the state-machine events the last tick issued, in order
    error       \* the error the last rejected initialize returned, if any

vars == <<game, walk, keystate, trace, error>>

----------------------------------------------------------------------------
(* Bounds of the model *)

\* ticks stop once the world has scrolled this many pixels
MaxScroll == 460

----------------------------------------------------------------------------
(* Constants of game.rs *)

HEIGHT == 600
FLOOR == 479
PLAYER_HEIGHT == HEIGHT - FLOOR
STARTING_POINT == -20
IDLE_FRAMES == 29
RUNNING_FRAMES == 23
RUNNING_SPEED == 4
SLIDING_FRAMES == 14
FALLING_FRAMES == 29
JUMPING_FRAMES == 12 * 3 - 1
JUMP_SPEED == -25
GRAVITY == 1
TERMINAL_VELOCITY == 20
LOW_PLATFORM == 420
FIRST_PLATFORM == 370
STONE_X == 150
STONE_Y == 546
BOY_X_OFFSET == 18
BOY_Y_OFFSET == 14
BOY_WIDTH_OFFSET == 28
PLATFORM_X_OFFSET == 60
PLATFORM_END_HEIGHT == 54

IDLE_FRAME_NAME == "Idle"
RUNNING_FRAME_NAME == "Run"
SLIDING_FRAME_NAME == "Slide"
JUMPING_FRAME_NAME == "Jump"
FALLING_FRAME_NAME == "Dead"

\* i16 arithmetic of a release build: two's complement wrap-around
Wrap16(n) == ((n + 32768) % 65536) - 32768

----------------------------------------------------------------------------
(* Assets and engine primitives.  They live outside game.rs (the sprite    *)
(* atlases, the images, engine::Rect, engine::Image); they are modelled    *)
(* from the specification's description of the collaborators.  The sizes   *)
(* are one choice of assets: a boy that a jump carries over the stone and  *)
(* onto the platform, as the game is played.                               *)

\* the cell of the boy's atlas for an animation name: the offset of the
\* trimmed sprite inside its source box, and the trimmed sprite's size
Cell(name) ==
    CASE name = IDLE_FRAME_NAME    -> [sx |-> 58, sy |-> 8,  w |-> 71,  h |-> 115]
      [] name = RUNNING_FRAME_NAME -> [sx |-> 44, sy |-> 6,  w |-> 93,  h |-> 117]
      [] name = SLIDING_FRAME_NAME -> [sx |-> 36, sy |-> 40, w |-> 101, h |-> 83]
      [] name = JUMPING_FRAME_NAME -> [sx |-> 46, sy |-> 2,  w |-> 89,  h |-> 121]
      [] OTHER                     -> [sx |-> 30, sy |-> 12, w |-> 119, h |-> 111]

\* the cell "13.png" of the tile atlas
PLATFORM_CELL_W == 128
PLATFORM_CELL_H == 93

\* Stone.png
STONE_W == 90
STONE_H == 54

\* the surfaces a caller of land_on may name
LandPositions == {LOW_PLATFORM}

\* the widths BG.png may have
BackgroundWidths == {100, 216}

\* Rect::intersects: axis-aligned overlap, touching edges do not overlap
intersects(a, b) ==
    /\ a.x < b.x + b.width
    /\ a.x + a.width > b.x
    /\ a.y < b.y + b.height
    /\ a.y + a.height > b.y

\* Image::right
right(image) == image.x + image.width

\* Image::move_horizontally
move_horizontally(image, distance) == [image EXCEPT !.x = Wrap16(@ + distance)]

\* Image::set_x
set_x(image, x) == [image EXCEPT !.x = x]

\* Image::bounding_box
ImageBoundingBox(image) == image

----------------------------------------------------------------------------
(* RedHatBoyContext *)

ContextUpdateNoClamp(ctx, frame_count) ==
    LET vy == IF ctx.velocity.y < TERMINAL_VELOCITY
              THEN ctx.velocity.y + GRAVITY
              ELSE ctx.velocity.y
        fr == IF ctx.frame < frame_count THEN ctx.frame + 1 ELSE 0
    IN  [ctx EXCEPT !.velocity.y = vy,
                    !.frame = fr,
                    !.position.y = ctx.position.y + vy]

ContextUpdateLateWrap(ctx, frame_count) ==
    LET vy == IF ctx.velocity.y < TERMINAL_VELOCITY
              THEN ctx.velocity.y + GRAVITY
              ELSE ctx.velocity.y
        fr == IF ctx.frame <= frame_count THEN ctx.frame + 1 ELSE 0
        py == ctx.position.y + vy
    IN  [ctx EXCEPT !.velocity.y = vy,
                    !.frame = fr,
                    !.position.y = IF py > FLOOR THEN FLOOR ELSE py]

ContextUpdatePastTerminal(ctx, frame_count) ==
    LET vy == IF ctx.velocity.y <= TERMINAL_VELOCITY
              THEN ctx.velocity.y + GRAVITY
              ELSE ctx.velocity.y
        fr == IF ctx.frame < frame_count THEN ctx.frame + 1 ELSE 0
        py == ctx.position.y + vy
    IN  [ctx EXCEPT !.velocity.y = vy,
                    !.frame = fr,
                    !.position.y = IF py > FLOOR THEN FLOOR ELSE py]

ContextUpdate(ctx, frame_count) ==
    LET vy == IF ctx.velocity.y < TERMINAL_VELOCITY
              THEN ctx.velocity.y + GRAVITY
              ELSE ctx.velocity.y
        fr == IF ctx.frame < frame_count THEN ctx.frame + 1 ELSE 0
        py == ctx.position.y + vy
    IN  [ctx EXCEPT !.velocity.y = vy,
                    !.frame = fr,
                    !.position.y = IF py > FLOOR THEN FLOOR ELSE py]

reset_frame(ctx) == [ctx EXCEPT !.frame = 0]

run_rightTwice(ctx) == [ctx EXCEPT !.velocity.x = 2 * RUNNING_SPEED]

run_right(ctx) == [ctx EXCEPT !.velocity.x = RUNNING_SPEED]

set_vertical_velocity(ctx, y) == [ctx EXCEPT !.velocity.y = y]

stopFalling(ctx) == [ctx EXCEPT !.velocity.y = 0]

stopRunning(ctx) == [ctx EXCEPT !.velocity.x = 0]

stop(ctx) == [ctx EXCEPT !.velocity.x = 0, !.velocity.y = 0]

set_onAndRest(ctx, position) ==
    [ctx EXCEPT !.position.y = position - PLAYER_HEIGHT, !.velocity.y = 0]

set_on(ctx, position) == [ctx EXCEPT !.position.y = position - PLAYER_HEIGHT]

----------------------------------------------------------------------------
(* The typed states.  A state machine value is the context plus the name   *)
(* of the active variant in the field "state".                             *)

In(ctx, variant) == [ctx EXCEPT !.state = variant]

IdleNew ==
    [state    |-> "Idle",
     frame    |-> 0,
     position |-> [x |-> STARTING_POINT, y |-> FLOOR],
     velocity |-> [x |-> 0, y |-> 0]]

IdleRun(s) == In(run_right(reset_frame(s)), "Running")

IdleUpdateRunningLength(s) == ContextUpdate(s, RUNNING_FRAMES)

IdleUpdate(s) == ContextUpdate(s, IDLE_FRAMES)

RunningUpdateIdleLength(s) == ContextUpdate(s, IDLE_FRAMES)

RunningUpdate(s) == ContextUpdate(s, RUNNING_FRAMES)

RunningSlideKeepsFrame(s) == In(s, "Sliding")

RunningSlide(s) == In(reset_frame(s), "Sliding")

RunningJump(s) == In(reset_frame(set_vertical_velocity(s, JUMP_SPEED)), "Jumping")

RunningLandOn(s, position) == In(set_on(s, position), "Running")

RunningKnockOut(s) == In(stop(reset_frame(s)), "Falling")

SlidingStandStill(s) == In(reset_frame(s), "Idle")

SlidingStand(s) == In(reset_frame(s), "Running")

SlidingUpdate(s) ==
    LET u == ContextUpdate(s, SLIDING_FRAMES)
    IN  IF u.frame >= SLIDING_FRAMES THEN SlidingStand(u) ELSE u

SlidingLandOnRestarts(s, position) == In(set_on(reset_frame(s), position), "Sliding")

SlidingLandOn(s, position) == In(set_on(s, position), "Sliding")

SlidingKnockOut(s) == In(stop(reset_frame(s)), "Falling")

JumpingLandOn(s, position) == In(set_on(reset_frame(s), position), "Running")

JumpingUpdatePastFloor(s) ==
    LET u == ContextUpdate(s, JUMPING_FRAMES)
    IN  IF u.position.y > FLOOR THEN JumpingLandOn(u, HEIGHT) ELSE u

JumpingUpdate(s) ==
    LET u == ContextUpdate(s, JUMPING_FRAMES)
    IN  IF u.position.y >= FLOOR THEN JumpingLandOn(u, HEIGHT) ELSE u

JumpingKnockOut(s) == In(stop(reset_frame(s)), "Falling")

FallingKnockOut(s) == In(s, "KnockedOut")

FallingUpdateWraps(s) ==
    LET u == ContextUpdate(s, FALLING_FRAMES)
    IN  IF u.frame > FALLING_FRAMES THEN FallingKnockOut(u) ELSE u

FallingUpdate(s) ==
    LET u == ContextUpdate(s, FALLING_FRAMES)
    IN  IF u.frame >= FALLING_FRAMES THEN FallingKnockOut(u) ELSE u

----------------------------------------------------------------------------
(* Event and RedHatBoyStateMachine *)

Ev(type) == [type |-> type, position |-> 0]
Land(position) == [type |-> "Land", position |-> position]

\* the arm "_ => self": every other pair is ignored
NoTransitionResets(s) == reset_frame(s)

NoTransition(s) == s

transition(s, event) ==
    CASE s.state = "Idle"    /\ event.type = "Run"      -> IdleRun(s)
      [] s.state = "Running" /\ event.type = "Slide"    -> RunningSlide(s)
      [] s.state = "Running" /\ event.type = "Jump"     -> RunningJump(s)
      [] s.state = "Running" /\ event.type = "KnockOut" -> RunningKnockOut(s)
      [] s.state = "Running" /\ event.type = "Land"     -> RunningLandOn(s, event.position)
      [] s.state = "Idle"    /\ event.type = "Update"   -> IdleUpdate(s)
      [] s.state = "Running" /\ event.type = "Update"   -> RunningUpdate(s)
      [] s.state = "Sliding" /\ event.type = "Update"   -> SlidingUpdate(s)
      [] s.state = "Falling" /\ event.type = "Update"   -> FallingUpdate(s)
      [] s.state = "Sliding" /\ event.type = "KnockOut" -> SlidingKnockOut(s)
      [] s.state = "Sliding" /\ event.type = "Land"     -> SlidingLandOn(s, event.position)
      [] s.state = "Jumping" /\ event.type = "Update"   -> JumpingUpdate(s)
      [] s.state = "Jumping" /\ event.type = "KnockOut" -> JumpingKnockOut(s)
      [] s.state = "Jumping" /\ event.type = "Land"     -> JumpingLandOn(s, event.position)
      [] OTHER -> NoTransition(s)

StateFrameName(s) ==
    CASE s.state = "Idle"    -> IDLE_FRAME_NAME
      [] s.state = "Running" -> RUNNING_FRAME_NAME
      [] s.state = "Sliding" -> SLIDING_FRAME_NAME
      [] s.state = "Jumping" -> JUMPING_FRAME_NAME
      [] OTHER               -> FALLING_FRAME_NAME

----------------------------------------------------------------------------
(* RedHatBoy *)

\* RedHatBoy::frame_name: "<animation> (<frame / 3 + 1>).png"
frame_name(s) ==
    StateFrameName(s) \o " (" \o ToString((s.frame \div 3) + 1) \o ").png"

destination_box(s) ==
    LET sprite == Cell(StateFrameName(s))
    IN  [x      |-> s.position.x + sprite.sx,
         y      |-> s.position.y + sprite.sy,
         width  |-> sprite.w,
         height |-> sprite.h]

bounding_box(s) ==
    LET d == destination_box(s)
    IN  [x      |-> d.x + BOY_X_OFFSET,
         y      |-> d.y + BOY_Y_OFFSET,
         width  |-> d.width - BOY_WIDTH_OFFSET,
         height |-> d.height - BOY_Y_OFFSET]

walking_speed(s) == s.velocity.x

----------------------------------------------------------------------------
(* Platform *)

PlatformDestinationBox(p) ==
    [x |-> p.x, y |-> p.y, width |-> PLATFORM_CELL_W * 3, height |-> PLATFORM_CELL_H]

bounding_boxes(p) ==
    LET d == PlatformDestinationBox(p)
    IN  << [x |-> d.x, y |-> d.y,
            width |-> PLATFORM_X_OFFSET, height |-> PLATFORM_END_HEIGHT],
           [x |-> d.x + PLATFORM_X_OFFSET, y |-> d.y,
            width |-> d.width - (PLATFORM_X_OFFSET * 2), height |-> d.height],
           [x |-> d.x + d.width - PLATFORM_X_OFFSET, y |-> d.y,
            width |-> PLATFORM_X_OFFSET, height |-> PLATFORM_END_HEIGHT] >>

----------------------------------------------------------------------------
(* Walk and WalkTheDog *)

velocityOfBoy(w) == walking_speed(w.boy)

\* Walk::velocity
velocity(w) == -walking_speed(w.boy)

\* the Walk that initialize builds for a background of the given width
NewWalk(background_width) ==
    [boy         |-> IdleNew,
     platform    |-> [x |-> FIRST_PLATFORM, y |-> LOW_PLATFORM],
     stone       |-> [x |-> STONE_X, y |-> STONE_Y, width |-> STONE_W, height |-> STONE_H],
     backgrounds |-> << [x |-> 0, y |-> 0, width |-> background_width],
                        [x |-> background_width, y |-> 0, width |-> background_width] >>]

NoWalk == [boy |-> IdleNew,
           platform |-> [x |-> 0, y |-> 0],
           stone |-> [x |-> 0, y |-> 0, width |-> 0, height |-> 0],
           backgrounds |-> << [x |-> 0, y |-> 0, width |-> 0],
                              [x |-> 0, y |-> 0, width |-> 0] >>]

\* no initialize has failed
NoError == "none"

\* the error of initialize on a Loaded game
AlreadyInitialized == "Error: Game is already initialized!"

KeyStates == [ArrowDown : BOOLEAN, ArrowRight : BOOLEAN, Space : BOOLEAN]

NoKeys == [ArrowDown |-> FALSE, ArrowRight |-> FALSE, Space |-> FALSE]

\* one entry of the trace: the step of the tick that issued the event, the
\* event, and the state machine before and after it
Entry(step, event, before) ==
    [step |-> step, event |-> event, before |-> before,
     after |-> transition(before, event)]

\* the input part of update: Slide, Run, Jump for the keys held
InputEvents(keys) ==
    (IF keys.ArrowDown THEN << Ev("Slide") >> ELSE << >>)
    \o (IF keys.ArrowRight THEN << Ev("Run") >> ELSE << >>)
    \o (IF keys.Space THEN << Ev("Jump") >> ELSE << >>)

\* the entries for a sequence of events applied in order from state s
RECURSIVE Apply(_, _, _)
Apply(step, events, s) ==
    IF events = << >> THEN << >>
    ELSE LET e == Entry(step, Head(events), s)
         IN  << e >> \o Apply(step, Tail(events), e.after)

\* the state after a sequence of entries that started at s
Last(entries, s) == IF entries = << >> THEN s ELSE entries[Len(entries)].after

CollisionEventEither(s, platform, box) ==
    IF s.velocity.y > 0 \/ s.position.y < platform.y
    THEN Land(box.y)
    ELSE Ev("KnockOut")

\* the event update issues for a platform box the boy's box intersects
CollisionEvent(s, platform, box) ==
    IF s.velocity.y > 0 /\ s.position.y < platform.y
    THEN Land(box.y)
    ELSE Ev("KnockOut")

\* the platform part of update: one pass over the three bounding boxes
RECURSIVE PlatformCollisions(_, _, _)
PlatformCollisions(boxes, platform, s) ==
    IF boxes = << >> THEN << >>
    ELSE IF intersects(bounding_box(s), Head(boxes))
         THEN LET event == CollisionEvent(s, platform, Head(boxes))
                  e == Entry("platform", event, s)
              IN  << e >> \o PlatformCollisions(Tail(boxes), platform, e.after)
         ELSE PlatformCollisions(Tail(boxes), platform, s)

StoneCollisionLands(stone, s) ==
    IF intersects(bounding_box(s), ImageBoundingBox(stone))
    THEN << Entry("stone", CollisionEvent(s, stone, ImageBoundingBox(stone)), s) >>
    ELSE << >>

\* the stone part of update
StoneCollision(stone, s) ==
    IF intersects(bounding_box(s), ImageBoundingBox(stone))
    THEN << Entry("stone", Ev("KnockOut"), s) >>
    ELSE << >>

WrapBackgroundsToWidth(first, second) ==
    LET f == IF right(first) < 0 THEN set_x(first, first.width) ELSE first
        s == IF right(second) < 0 THEN set_x(second, second.width) ELSE second
    IN  << f, s >>

\* the parallax wrap of update
WrapBackgrounds(first, second) ==
    LET f == IF right(first) < 0 THEN set_x(first, right(second)) ELSE first
        s == IF right(second) < 0 THEN set_x(second, right(f)) ELSE second
    IN  << f, s >>

UpdateScrollsFirst(w, keys) ==
    LET inputs   == Apply("input", InputEvents(keys), w.boy)
        s1       == Last(inputs, w.boy)
        updates  == Apply("update", << Ev("Update") >>, s1)
        s2       == Last(updates, s1)
        w2       == [w EXCEPT !.boy = s2]
        platform == [w.platform EXCEPT !.x = Wrap16(@ + velocity(w))]
        stone    == move_horizontally(w.stone, velocity(w))
        v        == velocity(w)
        scroll   == << [step |-> "scroll", event |-> [type |-> "Scroll", position |-> v],
                        before |-> s2, after |-> s2] >>
        bgs      == WrapBackgrounds(move_horizontally(w.backgrounds[1], v),
                                    move_horizontally(w.backgrounds[2], v))
        hits     == PlatformCollisions(bounding_boxes(platform), platform, s2)
        s3       == Last(hits, s2)
        stoned   == StoneCollision(stone, s3)
        s4       == Last(stoned, s3)
    IN  [walk  |-> [boy |-> s4, platform |-> platform, stone |-> stone,
                    backgrounds |-> bgs],
         trace |-> inputs \o updates \o scroll \o hits \o stoned]

\* WalkTheDog::update on a Loaded game: the new walk and the tick's trace
Update(w, keys) ==
    LET inputs   == Apply("input", InputEvents(keys), w.boy)
        s1       == Last(inputs, w.boy)
        updates  == Apply("update", << Ev("Update") >>, s1)
        s2       == Last(updates, s1)
        w2       == [w EXCEPT !.boy = s2]
        platform == [w.platform EXCEPT !.x = Wrap16(@ + velocity(w2))]
        stone    == move_horizontally(w.stone, velocity(w2))
        v        == velocity(w2)
        scroll   == << [step |-> "scroll", event |-> [type |-> "Scroll", position |-> v],
                        before |-> s2, after |-> s2] >>
        bgs      == WrapBackgrounds(move_horizontally(w.backgrounds[1], v),
                                    move_horizontally(w.backgrounds[2], v))
        hits     == PlatformCollisions(bounding_boxes(platform), platform, s2)
        s3       == Last(hits, s2)
        stoned   == StoneCollision(stone, s3)
        s4       == Last(stoned, s3)
    IN  [walk  |-> [boy |-> s4, platform |-> platform, stone |-> stone,
                    backgrounds |-> bgs],
         trace |-> inputs \o updates \o scroll \o hits \o stoned]

----------------------------------------------------------------------------
(* The state machine of the program *)

Init ==
    /\ game = "Loading"
    /\ walk = NoWalk
    /\ keystate = NoKeys
    /\ trace = << >>
    /\ error = NoError

\* WalkTheDog::initialize on a Loading game; the driver installs the result
Initialize ==
    /\ game = "Loading"
    /\ \E background_width \in BackgroundWidths :
           walk' = NewWalk(background_width)
    /\ game' = "Loaded"
    /\ UNCHANGED <<keystate, trace, error>>

\* WalkTheDog::update, called by the driver once per animation frame
Tick ==
    /\ game = "Loaded"
    /\ FIRST_PLATFORM - walk.platform.x < MaxScroll
    /\ \E keys \in KeyStates :
           LET r == Update(walk, keys)
           IN  /\ walk' = r.walk
               /\ trace' = r.trace
               /\ keystate' = keys
    /\ UNCHANGED <<game, error>>

Next == Initialize \/ Tick

Spec == Init /\ [][Next]_vars

\* a sum fits the signed 16-bit integer it is stored in
InI16(n) == n >= -32768 /\ n <= 32767

\* the keys of a player who keeps the boy running for as long as the game
\* lets them: ArrowRight is held in every tick, and Space with it, whenever
\* the player likes, until the platform is behind the boy
RunKeys(w) ==
    IF right(PlatformDestinationBox(w.platform)) >= 0
    THEN { keys \in KeyStates : keys.ArrowRight /\ ~keys.ArrowDown }
    ELSE { keys \in KeyStates : keys.ArrowRight /\ ~keys.ArrowDown /\ ~keys.Space }

\* one tick of that player's game, followed until the platform's x has left
\* the 16-bit range.  "walk.platform.position.x += walk.velocity()" is a
\* 16-bit addition: a build without overflow checks stores the wrapped sum
\* and plays on, a build with them panics in the tick where the sum leaves
\* the range.  v is the scroll of the tick, the value of walk.velocity()
\* that update adds.
Run ==
    /\ game = "Loaded"
    /\ walk.platform.x <= FIRST_PLATFORM
    /\ \E keys \in RunKeys(walk) :
           \E r \in {Update(walk, keys)} :
               \E v \in {r.trace[Len(InputEvents(keys)) + 2].event.position} :
                   /\ keystate' = keys
                   /\ trace' = r.trace
                   /\ \/ /\ walk' = r.walk
                         /\ game' = game
                      \/ /\ ~InI16(walk.platform.x + v)
                         /\ walk' = walk
                         /\ game' = "Panicked"
    /\ UNCHANGED error

NextRun == Initialize \/ Run

SpecRun == Init /\ [][NextRun]_vars

InitializeLoadedRebuilds ==
    /\ game = "Loaded"
    /\ walk' = NewWalk(walk.backgrounds[1].width)
    /\ UNCHANGED <<game, keystate, trace, error>>

\* WalkTheDog::initialize on a Loaded game: the Err arm; the game the call
\* was made on is borrowed and stays as it is
InitializeLoaded ==
    /\ game = "Loaded"
    /\ error' = AlreadyInitialized
    /\ UNCHANGED <<game, walk, keystate, trace>>

\* a caller of the Game trait that may call initialize at any time
NextGame == Initialize \/ InitializeLoaded \/ Tick

SpecGame == Init /\ [][NextGame]_vars

----------------------------------------------------------------------------
(* The RedHatBoy on its own: each of its methods hands one event to the    *)
(* state machine.  The boy starts as RedHatBoy::new leaves it.             *)

\* RedHatBoy::update
BoyUpdate ==
    /\ walk' = [walk EXCEPT !.boy = transition(walk.boy, Ev("Update"))]
    /\ trace' = << Entry("call", Ev("Update"), walk.boy) >>
    /\ UNCHANGED <<game, keystate, error>>

\* RedHatBoy::run_right
BoyRunRight ==
    /\ walk' = [walk EXCEPT !.boy = transition(walk.boy, Ev("Run"))]
    /\ trace' = << Entry("call", Ev("Run"), walk.boy) >>
    /\ UNCHANGED <<game, keystate, error>>

\* RedHatBoy::slide
BoySlide ==
    /\ walk' = [walk EXCEPT !.boy = transition(walk.boy, Ev("Slide"))]
    /\ trace' = << Entry("call", Ev("Slide"), walk.boy) >>
    /\ UNCHANGED <<game, keystate, error>>

\* RedHatBoy::jump
BoyJump ==
    /\ walk' = [walk EXCEPT !.boy = transition(walk.boy, Ev("Jump"))]
    /\ trace' = << Entry("call", Ev("Jump"), walk.boy) >>
    /\ UNCHANGED <<game, keystate, error>>

\* RedHatBoy::knock_out
BoyKnockOut ==
    /\ walk' = [walk EXCEPT !.boy = transition(walk.boy, Ev("KnockOut"))]
    /\ trace' = << Entry("call", Ev("KnockOut"), walk.boy) >>
    /\ UNCHANGED <<game, keystate, error>>

\* RedHatBoy::land_on
BoyLandOn ==
    \E position \in LandPositions :
        /\ walk' = [walk EXCEPT !.boy = transition(walk.boy, Land(position))]
        /\ trace' = << Entry("call", Land(position), walk.boy) >>
        /\ UNCHANGED <<game, keystate, error>>

NextBoy == BoyUpdate \/ BoyRunRight \/ BoySlide \/ BoyJump \/ BoyKnockOut \/ BoyLandOn

SpecBoy == Init /\ [][NextBoy]_vars

\* a boy that is only told to run, to jump and to update, with the driver
\* calling update for ever
NextJump == BoyUpdate \/ BoyRunRight \/ BoyJump

SpecJump == Init /\ [][NextJump]_vars /\ WF_vars(BoyUpdate)

\* every method of the boy, in any order, with update called again and
\* again as the game loop does once a tick
SpecLoop == Init /\ [][NextBoy]_vars /\ WF_vars(BoyUpdate)

----------------------------------------------------------------------------
(* What is checked of the model *)

boy == walk.boy

\* the entries of the last tick or call in which an event reached the state machine
Issued == { i \in DOMAIN trace : trace[i].step # "scroll" }

\* the (state, event) pairs for which a transition is written
EnumeratedPairs ==
    { <<"Idle", "Run">>, <<"Idle", "Update">>,
      <<"Running", "Slide">>, <<"Running", "Jump">>, <<"Running", "KnockOut">>,
      <<"Running", "Land">>, <<"Running", "Update">>,
      <<"Sliding", "Update">>, <<"Sliding", "KnockOut">>, <<"Sliding", "Land">>,
      <<"Jumping", "Update">>, <<"Jumping", "KnockOut">>, <<"Jumping", "Land">>,
      <<"Falling", "Update">> }

Ignored(e) == <<e.before.state, e.event.type>> \notin EnumeratedPairs

\* C1: an event that reaches the state machine in a pair for which no
\* transition is written returns the identical state: same variant, frame,
\* position and velocity.
C1_IgnoredPairsAreNoOps ==
    \A i \in Issued : Ignored(trace[i]) => trace[i].after = trace[i].before

\* Jump was ignored by a boy that is part-way through a slide
C1_Witness ==
    \E i \in Issued :
        /\ trace[i].before.state = "Sliding"
        /\ trace[i].before.frame > 0
        /\ trace[i].event.type = "Jump"
        /\ trace[i].after = trace[i].before

\* C2: whatever events reach the boy (any input, any Land on the platform
\* at y = 420, any KnockOut) the vertical velocity never exceeds
\* TERMINAL_VELOCITY and position.y never exceeds FLOOR, after every event.
C2_VelocityAndFloorBounds ==
    /\ boy.velocity.y <= TERMINAL_VELOCITY
    /\ boy.position.y <= FLOOR
    /\ \A i \in DOMAIN trace :
           /\ trace[i].after.velocity.y <= TERMINAL_VELOCITY
           /\ trace[i].after.position.y <= FLOOR

\* an Update held a boy, coming down from a jump at terminal velocity, on
\* the floor
C2_Witness ==
    \E i \in DOMAIN trace :
        /\ trace[i].event.type = "Update"
        /\ trace[i].before.state = "Jumping"
        /\ trace[i].before.velocity.y = TERMINAL_VELOCITY
        /\ trace[i].before.position.y > FLOOR - TERMINAL_VELOCITY
        /\ trace[i].before.position.y < FLOOR
        /\ trace[i].after.velocity.y = TERMINAL_VELOCITY
        /\ trace[i].after.position.y = FLOOR

\* the entries of the platform part of the last tick
PlatformEntries == { i \in DOMAIN trace : trace[i].step = "platform" }

\* the boy as the collision step of the last tick found it
AfterUpdate == trace[CHOOSE i \in DOMAIN trace : trace[i].step = "scroll"].after

FromAbove(s) == s.velocity.y > 0 /\ s.position.y < walk.platform.y

\* the platform boxes the boy's box overlaps
Overlapped(s) ==
    { k \in 1..3 : intersects(bounding_box(s), bounding_boxes(walk.platform)[k]) }

\* an event is issued exactly for an overlap, and it is Land for a boy that
\* comes from above and KnockOut otherwise
C3_EventChosen ==
    /\ \A i \in PlatformEntries :
           LET e == trace[i]
           IN  /\ Overlapped(e.before) # {}
               /\ IF FromAbove(e.before)
                  THEN e.event = Land(walk.platform.y)
                  ELSE e.event = Ev("KnockOut")
    /\ PlatformEntries = {} => Overlapped(AfterUpdate) = {}

\* C3 as stated: on an overlap with a platform box, Land leaves the boy
\* Running or Sliding and not Falling, and KnockOut leaves the boy Falling,
\* whatever the boy was when the event was issued.
C3_AsStated ==
    game = "Loaded" /\ trace # << >> =>
        /\ C3_EventChosen
        /\ \A i \in PlatformEntries :
               LET e == trace[i]
               IN  IF FromAbove(e.before)
                   THEN e.after.state \in {"Running", "Sliding"}
                   ELSE e.after.state = "Falling"

\* C3, amended: on an overlap with a platform box Land is issued to a boy
\* coming from above and KnockOut otherwise; a boy that is Running, Sliding
\* or Jumping is then Running or Sliding after Land and Falling after
\* KnockOut, and a boy that is Idle, Falling or KnockedOut is left as it was.
C3_CollisionDisambiguation ==
    game = "Loaded" /\ trace # << >> =>
        /\ C3_EventChosen
        /\ \A i \in PlatformEntries :
               LET e == trace[i]
               IN  IF e.before.state \in {"Running", "Sliding", "Jumping"}
                   THEN IF FromAbove(e.before)
                        THEN e.after.state
                                = (IF e.before.state = "Sliding" THEN "Sliding" ELSE "Running")
                        ELSE e.after.state = "Falling"
                   ELSE e.after = e.before

\* a boy coming down from a jump onto the platform was landed and runs on it
C3_Witness ==
    /\ game = "Loaded"
    /\ \E i \in PlatformEntries :
           /\ trace[i].before.state = "Jumping"
           /\ trace[i].event.type = "Land"
           /\ trace[i].after.state = "Running"
           /\ boy.state = "Running"

\* the steps of a jump: Jump takes a boy running on the floor to Jumping and
\* keeps its horizontal velocity; Update keeps the boy Jumping while it is
\* above the floor and lands it, Running on the floor with the horizontal
\* velocity it had, when it reaches the floor
C4_JumpSteps ==
    \A i \in Issued :
        LET e == trace[i]
        IN  /\ (e.before.state = "Running" /\ e.before.position.y = FLOOR
                    /\ e.event.type = "Jump")
                => /\ e.after.state = "Jumping"
                   /\ e.after.velocity.x = e.before.velocity.x
            /\ (e.before.state = "Jumping" /\ e.event.type = "Update")
                => /\ e.after.velocity.x = e.before.velocity.x
                   /\ IF e.after.position.y < FLOOR
                      THEN e.after.state = "Jumping"
                      ELSE e.after.state = "Running" /\ e.after.position.y = FLOOR

\* C4: Jump takes a boy running on the floor to Jumping; under Update the
\* boy stays Jumping while above the floor, and after finitely many Updates
\* it is Running on the floor again with the horizontal velocity it had
\* before the jump.
C4_JumpRoundTrip ==
    /\ []C4_JumpSteps
    /\ (boy.state = "Jumping")
          ~> (boy.state = "Running" /\ boy.position.y = FLOOR
                /\ boy.velocity.x = RUNNING_SPEED)

\* the Update that brought a jumping boy back to the floor, Running
C4_Witness ==
    \E i \in Issued :
        /\ trace[i].event.type = "Update"
        /\ trace[i].before.state = "Jumping"
        /\ trace[i].before.position.y < FLOOR
        /\ trace[i].after.state = "Running"
        /\ trace[i].after.position.y = FLOOR
        /\ trace[i].after.velocity.x = RUNNING_SPEED

\* C5: once the boy is KnockedOut every event (Run, Slide, Jump, KnockOut,
\* Land, Update) leaves the variant, the frame, the position and the
\* velocity as they are.
C5_KnockedOutIsTerminal ==
    [][boy.state = "KnockedOut" => walk'.boy = walk.boy]_vars

\* an Update reached a boy that was KnockedOut
C5_Witness ==
    /\ boy.state = "KnockedOut"
    /\ \E i \in Issued :
           /\ trace[i].before.state = "KnockedOut"
           /\ trace[i].event.type = "Update"

\* the number of keys held
Held(keys) ==
    (IF keys.ArrowDown THEN 1 ELSE 0) + (IF keys.ArrowRight THEN 1 ELSE 0)
        + (IF keys.Space THEN 1 ELSE 0)

\* the place of a key's event among the input events of a tick
RunPlace(keys) == (IF keys.ArrowDown THEN 1 ELSE 0) + 1
JumpPlace(keys) == Held(keys)

\* C6: a tick of a loaded game applies the input events first (Slide for
\* ArrowDown, then Run for ArrowRight, then Jump for Space, one for each key
\* held), then exactly one Update, then scrolls by the horizontal speed the
\* boy has after that Update, then resolves the platform collisions against
\* the scrolled platform, then checks the stone; Land and KnockOut are only
\* issued after the scroll.
C6_TickOrder ==
    [][game = "Loaded" =>
        LET t == trace'
            k == keystate'
            n == Held(k)
        IN  /\ Len(t) >= n + 2
            /\ \A i \in 1..n : t[i].step = "input"
            /\ k.ArrowDown => t[1].event = Ev("Slide")
            /\ k.ArrowRight => t[RunPlace(k)].event = Ev("Run")
            /\ k.Space => t[JumpPlace(k)].event = Ev("Jump")
            /\ t[n + 1].step = "update" /\ t[n + 1].event = Ev("Update")
            /\ t[n + 2].step = "scroll"
            /\ t[n + 2].event.position = -(t[n + 1].after.velocity.x)
            /\ walk'.platform.x = walk.platform.x + t[n + 2].event.position
            /\ walk'.stone.x = walk.stone.x + t[n + 2].event.position
            /\ \A i \in (n + 3)..Len(t) :
                   /\ t[i].step \in {"platform", "stone"}
                   /\ t[i].event.type \in {"Land", "KnockOut"}
                   /\ t[i].step = "platform" =>
                          \E j \in 1..3 :
                              intersects(bounding_box(t[i].before),
                                         bounding_boxes(walk'.platform)[j])
                   /\ t[i].step = "stone" =>
                          /\ i = Len(t)
                          /\ intersects(bounding_box(t[i].before), walk'.stone)
            /\ t[1].before = walk.boy
            /\ \A i \in 1..(Len(t) - 1) : t[i + 1].before = t[i].after
            /\ t[Len(t)].after = walk'.boy
    ]_vars

\* a tick with all three keys held in which the world scrolled and the boy
\* was landed on the platform
C6_Witness ==
    /\ game = "Loaded"
    /\ keystate = [ArrowDown |-> TRUE, ArrowRight |-> TRUE, Space |-> TRUE]
    /\ \E i \in DOMAIN trace : trace[i].step = "scroll" /\ trace[i].event.position < 0
    /\ \E i \in DOMAIN trace : trace[i].step = "platform" /\ trace[i].event.type = "Land"

\* the animation length of a variant
AnimationLength(variant) ==
    CASE variant = "Idle"    -> IDLE_FRAMES
      [] variant = "Running" -> RUNNING_FRAMES
      [] variant = "Sliding" -> SLIDING_FRAMES
      [] variant = "Jumping" -> JUMPING_FRAMES
      [] OTHER               -> FALLING_FRAMES

\* the Updates of the last tick or call that reached a boy in the given variants
UpdatesOf(variants) ==
    { i \in Issued : trace[i].event.type = "Update" /\ trace[i].before.state \in variants }

\* the frame counts 1, 2, ..., L and is 0 again on the next Update
Wraps(e) ==
    /\ e.before.frame <= AnimationLength(e.before.state)
    /\ e.after.frame = IF e.before.frame < AnimationLength(e.before.state)
                       THEN e.before.frame + 1
                       ELSE 0

\* the frame counts 1, 2, ..., L - 1 and the Update that would make it L
\* moves on to the next variant instead, so the frame never wraps
EndsInstead(e, next, frame) ==
    /\ e.before.frame < AnimationLength(e.before.state)
    /\ IF e.before.frame + 1 < AnimationLength(e.before.state)
       THEN e.after.state = e.before.state /\ e.after.frame = e.before.frame + 1
       ELSE e.after.state = next /\ e.after.frame = frame

\* C7 as stated: Idle and Running wrap to frame 0 on the Update after frame
\* L; Sliding, Jumping and Falling trigger their auto-transition instead of
\* wrapping.
C7_AsStated ==
    /\ \A i \in UpdatesOf({"Idle", "Running"}) :
           trace[i].after.state = trace[i].before.state /\ Wraps(trace[i])
    /\ \A i \in UpdatesOf({"Sliding", "Jumping", "Falling"}) :
           ~ (/\ trace[i].before.frame = AnimationLength(trace[i].before.state)
              /\ trace[i].after.state = trace[i].before.state
              /\ trace[i].after.frame = 0)

\* C7, amended: under Update the frame of Idle, Running and Jumping counts
\* 1, ..., L and is 0 again on the (L + 1)-th Update, a Jumping boy wrapping
\* like the others unless that Update lands it (it lands when position.y
\* reaches FLOOR, whatever the frame); Sliding and Falling never wrap: the
\* Update that makes the frame L turns Sliding into Running with frame 0
\* and Falling into KnockedOut with frame L.
C7_FrameWrap ==
    /\ \A i \in UpdatesOf({"Idle", "Running"}) :
           trace[i].after.state = trace[i].before.state /\ Wraps(trace[i])
    /\ \A i \in UpdatesOf({"Jumping"}) :
           IF trace[i].after.position.y < FLOOR
           THEN trace[i].after.state = "Jumping" /\ Wraps(trace[i])
           ELSE trace[i].after.state = "Running" /\ trace[i].after.frame = 0
    /\ \A i \in UpdatesOf({"Sliding"}) : EndsInstead(trace[i], "Running", 0)
    /\ \A i \in UpdatesOf({"Falling"}) :
           EndsInstead(trace[i], "KnockedOut", FALLING_FRAMES)

\* the 36th Update of a jump: the frame wrapped to 0 and the boy is still
\* Jumping, above the floor
C7_Witness ==
    \E i \in UpdatesOf({"Jumping"}) :
        /\ trace[i].before.frame = JUMPING_FRAMES
        /\ trace[i].after.frame = 0
        /\ trace[i].after.state = "Jumping"
        /\ trace[i].after.position.y < FLOOR

\* C8: every call of the context's update adds exactly GRAVITY to a
\* velocity.y below TERMINAL_VELOCITY and leaves a velocity.y that has
\* reached TERMINAL_VELOCITY as it is; velocity.y never passes it.
C8_Gravity ==
    \A i \in UpdatesOf({"Idle", "Running", "Sliding", "Jumping", "Falling"}) :
        /\ trace[i].before.velocity.y <= TERMINAL_VELOCITY
        /\ trace[i].after.velocity.y
              = IF trace[i].before.velocity.y < TERMINAL_VELOCITY
                THEN trace[i].before.velocity.y + GRAVITY
                ELSE TERMINAL_VELOCITY

\* an update of a boy that has stood Idle since velocity.y was 0 and is at
\* terminal velocity: the velocity stays
C8_Witness ==
    \E i \in UpdatesOf({"Idle"}) :
        /\ trace[i].before.velocity.y = TERMINAL_VELOCITY
        /\ trace[i].after.velocity.y = TERMINAL_VELOCITY

\* C9: a tick with no key held leaves an Idle boy Idle with position.y at
\* FLOOR, and moves the frame from 0 through 1, ..., IDLE_FRAMES and back to
\* 0; a boy that has not left Idle stands on the floor.
C9_IdleStaysIdle ==
    [][game = "Loaded" /\ boy.state = "Idle" =>
        /\ boy.position.y = FLOOR
        /\ boy.frame <= IDLE_FRAMES
        /\ keystate' = NoKeys =>
              /\ walk'.boy.state = "Idle"
              /\ walk'.boy.position.y = FLOOR
              /\ walk'.boy.frame = IF boy.frame < IDLE_FRAMES THEN boy.frame + 1 ELSE 0
    ]_vars

\* an Idle boy whose frame has wrapped to 0 in a tick with no key held
C9_Witness ==
    /\ game = "Loaded"
    /\ keystate = NoKeys
    /\ boy.state = "Idle"
    /\ boy.frame = 0
    /\ boy.position.y = FLOOR
    /\ \E i \in UpdatesOf({"Idle"}) : trace[i].before.frame = IDLE_FRAMES

first_background == walk.backgrounds[1]
second_background == walk.backgrounds[2]

\* one layer starts where the other ends
Adjacent(a, b) == a.x = right(b) \/ b.x = right(a)

\* the distance the last tick scrolled the world by
Scrolled(t) == t[CHOOSE i \in DOMAIN t : t[i].step = "scroll"].event.position

\* C10: after every tick the two background layers are exactly adjacent; a
\* layer whose right() dropped below 0 in the tick has its new x equal to
\* the other layer's right(), and a layer whose right() did not is moved by
\* the scroll and nothing else.
C10_ParallaxWrap ==
    [][game = "Loaded" =>
        LET v  == Scrolled(trace')
            f  == walk.backgrounds[1]
            s  == walk.backgrounds[2]
            f2 == walk'.backgrounds[1]
            s2 == walk'.backgrounds[2]
        IN  /\ Adjacent(f2, s2)
            /\ f2.width = f.width /\ s2.width = s.width /\ f.width = s.width
            /\ IF right(f) + v < 0 THEN f2.x = right(s2) ELSE f2.x = f.x + v
            /\ IF right(s) + v < 0 THEN s2.x = right(f2) ELSE s2.x = s.x + v
    ]_vars

\* the tick in which the second layer left the screen, the first having
\* wrapped before it: the second was put where the first ends
C10_Witness ==
    /\ game = "Loaded"
    /\ trace # << >>
    /\ Scrolled(trace) < 0
    /\ first_background.x < 0
    /\ first_background.x - Scrolled(trace) >= 0
    /\ second_background.x = right(first_background)
    /\ FIRST_PLATFORM - walk.platform.x > 2 * second_background.width

\* C11: initialize on a Loaded game is rejected with an error and leaves
\* the game Loaded with the World it had, untouched; a World only changes
\* in a tick; a Loaded game only comes from initialize on a Loading one,
\* with the boy Idle at frame 0, position.y = FLOOR and velocity (0, 0).
C11_InitializeTwiceRejected ==
    [][/\ game = "Loaded" =>
             /\ game' = "Loaded"
             /\ error' # error =>
                   /\ error' = AlreadyInitialized
                   /\ walk' = walk /\ trace' = trace
             /\ walk' # walk =>
                   /\ error' = error
                   /\ trace' # << >>
                   /\ trace'[1].before = walk.boy
                   /\ \E i \in DOMAIN trace' : trace'[i].step = "update"
       /\ game = "Loading" =>
             /\ error' = error /\ error = NoError
             /\ game' = "Loaded" =>
                   /\ walk'.boy.state = "Idle"
                   /\ walk'.boy.frame = 0
                   /\ walk'.boy.position.y = FLOOR
                   /\ walk'.boy.velocity = [x |-> 0, y |-> 0]
    ]_vars

\* initialize was rejected on a game whose world had scrolled and whose boy
\* was running, and both are still there
C11_Witness ==
    /\ game = "Loaded"
    /\ error = AlreadyInitialized
    /\ boy.state = "Running"
    /\ walk.platform.x < FIRST_PLATFORM

\* the entries of the stone check of the last tick
StoneEntries == { i \in DOMAIN trace : trace[i].step = "stone" }

\* the boy as the stone check of the last tick found it
BeforeStone ==
    LET earlier == { i \in DOMAIN trace : trace[i].step # "stone" }
    IN  trace[CHOOSE i \in earlier : \A j \in earlier : j <= i].after

\* C12: in a tick in which the boy's box intersects the stone's box at the
\* stone check, KnockOut is issued, whatever velocity.y and position.y are,
\* and a boy that is Running, Sliding or Jumping then ends the tick Falling;
\* in a tick in which it does not, the stone check issues nothing.
C12_StoneKnocksOut ==
    game = "Loaded" /\ trace # << >> =>
        IF intersects(bounding_box(BeforeStone), walk.stone)
        THEN /\ \E i \in StoneEntries :
                   /\ i = Len(trace)
                   /\ trace[i].event = Ev("KnockOut")
                   /\ trace[i].before = BeforeStone
             /\ BeforeStone.state \in {"Running", "Sliding", "Jumping"}
                   => boy.state = "Falling"
        ELSE StoneEntries = {}

\* a boy coming down from a jump onto the stone, above it and moving
\* downward, was knocked out and not landed
C12_Witness ==
    /\ game = "Loaded"
    /\ \E i \in StoneEntries :
           /\ trace[i].before.state = "Jumping"
           /\ trace[i].before.velocity.y > 0
           /\ trace[i].before.position.y < walk.stone.y
           /\ trace[i].event = Ev("KnockOut")
    /\ boy.state = "Falling"

\* what one event does to a Falling boy, and how Falling is entered
C13_FallingSteps ==
    \A i \in Issued :
        LET e == trace[i]
        IN  /\ (e.before.state # "Falling" /\ e.after.state = "Falling")
                => e.after.frame = 0
            /\ e.before.state = "Falling" =>
                  /\ e.before.frame < FALLING_FRAMES
                  /\ IF e.event.type # "Update"
                     THEN e.after = e.before
                     ELSE IF e.before.frame + 1 < FALLING_FRAMES
                          THEN /\ e.after.state = "Falling"
                               /\ e.after.frame = e.before.frame + 1
                          ELSE e.after.state = "KnockedOut"

\* C13: the boy enters Falling with frame 0; Run, Slide, Jump, Land and
\* KnockOut leave a Falling boy unchanged; Update keeps it Falling while
\* the frame it makes is below FALLING_FRAMES (the first 28 Updates) and
\* makes it KnockedOut at the Update on which the frame reaches
\* FALLING_FRAMES (the 29th); so, as long as update keeps being called, a
\* Falling boy eventually is KnockedOut.
C13_FallingEndsKnockedOut ==
    /\ []C13_FallingSteps
    /\ (boy.state = "Falling") ~> (boy.state = "KnockedOut")

\* the 29th Update of a fall made the boy KnockedOut
C13_Witness ==
    \E i \in Issued :
        /\ trace[i].event.type = "Update"
        /\ trace[i].before.state = "Falling"
        /\ trace[i].before.frame = FALLING_FRAMES - 1
        /\ trace[i].after.state = "KnockedOut"

\* the events of the last tick or call that reached a Sliding boy
SlidingEntries == { i \in Issued : trace[i].before.state = "Sliding" }

\* the Updates that end a slide
SlideEnds == { i \in SlidingEntries : /\ trace[i].event.type = "Update"
                                      /\ trace[i].after.state = "Running" }

\* velocity.y after one context update of a boy with velocity.y = vy
Pulled(vy) == IF vy < TERMINAL_VELOCITY THEN vy + GRAVITY ELSE vy

\* Slide takes a Running boy to Sliding with frame 0; a Sliding boy has a
\* frame below SLIDING_FRAMES; Update makes the frame one more and keeps the
\* boy Sliding while that is below SLIDING_FRAMES, and makes it Running with
\* frame 0 when that is SLIDING_FRAMES; KnockOut makes it Falling; Land and
\* the other events leave the variant and the frame as they are
C14_SlideSteps ==
    /\ \A i \in Issued :
           (trace[i].before.state = "Running" /\ trace[i].event.type = "Slide")
               => trace[i].after.state = "Sliding" /\ trace[i].after.frame = 0
    /\ \A i \in SlidingEntries :
           LET e == trace[i]
           IN  /\ e.before.frame < SLIDING_FRAMES
               /\ CASE e.event.type = "Update" ->
                          IF e.before.frame + 1 < SLIDING_FRAMES
                          THEN /\ e.after.state = "Sliding"
                               /\ e.after.frame = e.before.frame + 1
                          ELSE /\ e.after.state = "Running"
                               /\ e.after.frame = 0
                   [] e.event.type = "KnockOut" -> e.after.state = "Falling"
                   [] OTHER -> /\ e.after.state = "Sliding"
                               /\ e.after.frame = e.before.frame

\* C14 as stated: the Update on which the frame reaches SLIDING_FRAMES
\* makes the boy Running with frame 0 and the velocity it had.
C14_AsStated ==
    /\ C14_SlideSteps
    /\ \A i \in SlideEnds : trace[i].after.velocity = trace[i].before.velocity

\* C14, amended: after Slide from Running each Update advances the frame
\* and the boy stays Sliding while the frame is below SLIDING_FRAMES; the
\* Update on which it reaches SLIDING_FRAMES makes the boy Running with
\* frame 0, with velocity.x unchanged and velocity.y changed as every
\* Update changes it (GRAVITY more, unless it is TERMINAL_VELOCITY already);
\* KnockOut ends the slide in Falling; Land keeps the frame, so it does not
\* change the Update at which the slide ends.
C14_SlideEndsRunning ==
    /\ C14_SlideSteps
    /\ \A i \in SlideEnds :
           /\ trace[i].after.velocity.x = trace[i].before.velocity.x
           /\ trace[i].after.velocity.y = Pulled(trace[i].before.velocity.y)

\* the 14th Update of a slide made the boy Running, just after a Land, and
\* gravity changed its velocity.y in that Update
C14_Witness ==
    \E i \in SlideEnds :
        /\ trace[i].before.frame = SLIDING_FRAMES - 1
        /\ trace[i].before.position.y = LOW_PLATFORM - PLAYER_HEIGHT
        /\ trace[i].after.frame = 0
        /\ trace[i].after.velocity.y = trace[i].before.velocity.y + GRAVITY

\* the events of the last tick or call that changed the variant
VariantChanges == { i \in Issued : trace[i].after.state # trace[i].before.state }

\* the changes of variant that are written in the state machine
WrittenChanges ==
    { <<"Idle", "Running">>,
      <<"Running", "Sliding">>, <<"Running", "Jumping">>, <<"Running", "Falling">>,
      <<"Sliding", "Running">>, <<"Sliding", "Falling">>,
      <<"Jumping", "Running">>, <<"Jumping", "Falling">>,
      <<"Falling", "KnockedOut">> }

\* C15 as stated: every transition that changes the variant, Falling to
\* KnockedOut included, gives a context with frame 0.
C15_AsStated ==
    \A i \in VariantChanges :
        /\ <<trace[i].before.state, trace[i].after.state>> \in WrittenChanges
        /\ trace[i].after.frame = 0

\* C15, amended: every transition that changes the variant gives a context
\* with frame 0, except Falling to KnockedOut, which keeps the frame
\* FALLING_FRAMES that the last Update of the fall made (so the boy stays
\* on the last sprite of the fall).
C15_ResetFrameOnTransition ==
    \A i \in VariantChanges :
        /\ <<trace[i].before.state, trace[i].after.state>> \in WrittenChanges
        /\ trace[i].after.frame
              = (IF trace[i].after.state = "KnockedOut" THEN FALLING_FRAMES ELSE 0)

\* a boy part-way through its jump animation was knocked out and starts
\* the fall at frame 0
C15_Witness ==
    \E i \in VariantChanges :
        /\ trace[i].before.state = "Jumping"
        /\ trace[i].before.frame > 0
        /\ trace[i].after.state = "Falling"
        /\ trace[i].after.frame = 0

\* the Land events of the last tick or call that reached a boy that was
\* Running, Sliding or Jumping
Landings ==
    { i \in Issued : /\ trace[i].event.type = "Land"
                     /\ trace[i].before.state \in {"Running", "Sliding", "Jumping"} }

\* C16: Land(y) on a Running, Sliding or Jumping boy makes position.y
\* exactly y - PLAYER_HEIGHT (y - 121) and leaves position.x, velocity.x and
\* velocity.y as they are (landing does not zero the vertical velocity); a
\* Running or Sliding boy keeps its variant and frame, a Jumping boy
\* becomes Running with frame 0.
C16_LandSetsFeetOnSurface ==
    /\ PLAYER_HEIGHT = 121
    /\ \A i \in Landings :
           LET e == trace[i]
           IN  /\ e.after.position.y = e.event.position - 121
               /\ e.after.position.x = e.before.position.x
               /\ e.after.velocity = e.before.velocity
               /\ IF e.before.state = "Jumping"
                  THEN e.after.state = "Running" /\ e.after.frame = 0
                  ELSE /\ e.after.state = e.before.state
                       /\ e.after.frame = e.before.frame

\* a boy rising in a jump, part-way through the animation, was landed: it
\* is Running at frame 0 on the surface and still has its upward velocity
C16_Witness ==
    \E i \in Landings :
        /\ trace[i].before.state = "Jumping"
        /\ trace[i].before.frame > 0
        /\ trace[i].before.velocity.y < 0
        /\ trace[i].before.position.y # trace[i].event.position - PLAYER_HEIGHT
        /\ trace[i].after.state = "Running"
        /\ trace[i].after.position.y = trace[i].event.position - PLAYER_HEIGHT
        /\ trace[i].after.velocity.y = trace[i].before.velocity.y

\* the KnockOut events of the last tick or call
KnockOuts == { i \in Issued : trace[i].event.type = "KnockOut" }

\* C17: KnockOut on a Running, Sliding or Jumping boy gives a Falling boy
\* with frame 0, velocity.x = 0 and velocity.y = 0 at the position it had;
\* KnockOut on an Idle, Falling or KnockedOut boy changes nothing.
C17_KnockOutStopsTheBoy ==
    \A i \in KnockOuts :
        LET e == trace[i]
        IN  IF e.before.state \in {"Running", "Sliding", "Jumping"}
            THEN /\ e.after.state = "Falling"
                 /\ e.after.frame = 0
                 /\ e.after.velocity = [x |-> 0, y |-> 0]
                 /\ e.after.position = e.before.position
            ELSE /\ e.before.state \in {"Idle", "Falling", "KnockedOut"}
                 /\ e.after = e.before

\* a boy part-way through a slide, above the floor and moving down, was
\* knocked out: it is Falling at frame 0, stopped, where it was
C17_Witness ==
    \E i \in KnockOuts :
        /\ trace[i].before.state = "Sliding"
        /\ trace[i].before.frame > 0
        /\ trace[i].before.velocity.y > 0
        /\ trace[i].before.position.y < FLOOR
        /\ trace[i].after.state = "Falling"
        /\ trace[i].after.velocity = [x |-> 0, y |-> 0]
        /\ trace[i].after.position = trace[i].before.position

\* the horizontal velocity that goes with a variant
SpeedOf(variant) ==
    IF variant \in {"Running", "Sliding", "Jumping"} THEN RUNNING_SPEED ELSE 0

\* C18: in every reachable state, and after every event, velocity.x is 0
\* when the boy is Idle, Falling or KnockedOut and RUNNING_SPEED (4) when it
\* is Running, Sliding or Jumping; no other value occurs.
C18_SpeedFollowsVariant ==
    /\ RUNNING_SPEED = 4
    /\ boy.velocity.x = SpeedOf(boy.state)
    /\ \A i \in DOMAIN trace :
           /\ trace[i].before.velocity.x = SpeedOf(trace[i].before.state)
           /\ trace[i].after.velocity.x = SpeedOf(trace[i].after.state)

\* a boy that was moving at RUNNING_SPEED in a jump has been knocked out
\* and is Falling with velocity.x = 0
C18_Witness ==
    /\ boy.state = "Falling"
    /\ boy.velocity.x = 0
    /\ \E i \in DOMAIN trace :
           /\ trace[i].before.state = "Jumping"
           /\ trace[i].before.velocity.x = RUNNING_SPEED
           /\ trace[i].after = boy

\* the boy as the Update of a tick left it
Updated(t) == t[CHOOSE i \in DOMAIN t : t[i].step = "update"].after

\* C19: in every tick the scroll is minus the velocity.x the boy has after
\* that tick's Update; the platform and the stone move by exactly it, and
\* so does each background layer unless the tick wraps it; so after every
\* tick platform.x - stone.x is what it was at the start (370 - 150), the
\* platform's y is what it was, and the boy's position.x is STARTING_POINT.
C19_WorldScrollsTogether ==
    [][game = "Loaded" =>
        LET v == Scrolled(trace')
        IN  /\ v = -(Updated(trace').velocity.x)
            /\ walk'.platform = [walk.platform EXCEPT !.x = @ + v]
            /\ walk'.stone = [walk.stone EXCEPT !.x = @ + v]
            /\ \A k \in {1, 2} :
                   \/ walk'.backgrounds[k].x = walk.backgrounds[k].x + v
                   \/ right(walk.backgrounds[k]) + v < 0
            /\ walk'.platform.x - walk'.stone.x = 370 - 150
            /\ FIRST_PLATFORM - STONE_X = 370 - 150
            /\ walk'.platform.y = LOW_PLATFORM
            /\ walk'.boy.position.x = STARTING_POINT
    ]_vars

\* the world has scrolled 400 to the left under a boy that is still running
\* at its starting x, and the stone is still 220 to the left of the platform
C19_Witness ==
    /\ game = "Loaded"
    /\ trace # << >>
    /\ Scrolled(trace) = -RUNNING_SPEED
    /\ walk.platform.x = FIRST_PLATFORM - 400
    /\ walk.stone.x = STONE_X - 400
    /\ boy.state = "Running"
    /\ boy.position.x = STARTING_POINT

\* the sprite names of an animation of the given length: indices 1 to
\* length / 3 + 1
SpriteNames(name, length) ==
    { name \o " (" \o ToString(k) \o ").png" : k \in 1..((length \div 3) + 1) }

\* the frame is within the animation of the variant, and so is the sprite
FrameInAnimation(s) ==
    /\ s.frame \in 0..AnimationLength(s.state)
    /\ (s.frame \div 3) + 1 \in 1..((AnimationLength(s.state) \div 3) + 1)
    /\ frame_name(s) \in SpriteNames(StateFrameName(s), AnimationLength(s.state))

\* C20: in every reachable state, and after every event, the frame is at
\* most the animation length of the active variant (Idle 29, Running 23,
\* Sliding 14, Jumping 35, Falling and KnockedOut 29), so the sprite shown
\* has the variant's animation name and an index frame / 3 + 1 between 1
\* and length / 3 + 1.
C20_FrameWithinAnimation ==
    /\ <<AnimationLength("Idle"), AnimationLength("Running"), AnimationLength("Sliding"),
          AnimationLength("Jumping"), AnimationLength("Falling"),
          AnimationLength("KnockedOut")>> = <<29, 23, 14, 35, 29, 29>>
    /\ FrameInAnimation(boy)
    /\ \A i \in DOMAIN trace :
           FrameInAnimation(trace[i].before) /\ FrameInAnimation(trace[i].after)

\* a jumping boy on the last frame of its animation shows the twelfth and
\* last sprite of the jump
C20_Witness ==
    /\ boy.state = "Jumping"
    /\ boy.frame = JUMPING_FRAMES
    /\ frame_name(boy) = "Jump (12).png"
    /\ \E i \in DOMAIN trace :
           trace[i].event.type = "Update" /\ trace[i].after = boy

\* the boy has been knocked out: it is Falling or KnockedOut
Down(s) == s.state \in {"Falling", "KnockedOut"}

\* C21: once the boy is Falling or KnockedOut it stays so, and in every
\* later tick, whatever keys are held, the scroll is 0 and the platform,
\* the stone and both background layers stay where they were at the end of
\* the tick of the knock-out.
C21_WorldStopsAfterKnockOut ==
    [][game = "Loaded" /\ Down(boy) =>
        /\ Down(walk'.boy)
        /\ Scrolled(trace') = 0
        /\ walk'.platform = walk.platform
        /\ walk'.stone = walk.stone
        /\ walk'.backgrounds = walk.backgrounds
    ]_vars

\* a tick with every key held reached a boy that the stone had knocked out
\* after the world had scrolled, and scrolled nothing
C21_Witness ==
    /\ game = "Loaded"
    /\ trace # << >>
    /\ trace[1].before.state = "KnockedOut"
    /\ keystate = [ArrowDown |-> TRUE, ArrowRight |-> TRUE, Space |-> TRUE]
    /\ Scrolled(trace) = 0
    /\ walk.platform.x < FIRST_PLATFORM
    /\ first_background.x < 0

\* the place of a variant in the progression Idle, then Running, Sliding
\* or Jumping, then Falling, then KnockedOut
Stage(variant) ==
    CASE variant = "Idle"       -> 0
      [] variant \in {"Running", "Sliding", "Jumping"} -> 1
      [] variant = "Falling"    -> 2
      [] variant = "KnockedOut" -> 3

\* C22: no event makes a boy that is not Idle Idle, none takes a Falling
\* boy anywhere but to KnockedOut, and none changes a KnockedOut boy's
\* variant; at every event the boy stays in its stage of the progression
\* Idle, Running/Sliding/Jumping, Falling, KnockedOut or moves to the next
\* one, never backwards.
C22_OneWayProgression ==
    [][/\ walk'.boy.state = "Idle" => boy.state = "Idle"
       /\ boy.state = "Falling" => walk'.boy.state \in {"Falling", "KnockedOut"}
       /\ boy.state = "KnockedOut" => walk'.boy.state = "KnockedOut"
       /\ Stage(walk'.boy.state) \in {Stage(boy.state), Stage(boy.state) + 1}
       /\ \A i \in DOMAIN trace' :
              Stage(trace'[i].after.state)
                  \in {Stage(trace'[i].before.state), Stage(trace'[i].before.state) + 1}
    ]_vars

\* Run, which set an Idle boy running at the start, reached a boy that has
\* gone through the whole progression and is KnockedOut, and left it so
C22_Witness ==
    /\ boy.state = "KnockedOut"
    /\ trace # << >>
    /\ trace[1].event.type = "Run"
    /\ trace[1].before.state = "KnockedOut"
    /\ trace[1].after.state = "KnockedOut"

\* C23 as stated: whatever the player does and however long the boy keeps
\* running, no tick computes a platform x below -32768 (or above 32767):
\* the sum of line 711 always fits 16 bits, and the x a tick stores is
\* the x before it plus that tick's scroll.
C23_AsStated ==
    [][game = "Loaded" =>
        /\ InI16(walk.platform.x + Scrolled(trace'))
        /\ game' = "Loaded" => walk'.platform.x = walk.platform.x + Scrolled(trace')
    ]_vars

====
